---- MODULE Spec2Model ----
(***************************************************************************)
(* The /analyze request path of ARYPHISH_DETECTOR (src/main.py): the       *)
(* Flask route analyze(), the coroutine perform_analysis(), the fetch, the *)
(* two provider adapters joined by asyncio.gather, and the response that   *)
(* the page's formatResult() renders.                                      *)
(*                                                                         *)
(* A Python str is modelled as a sequence of one-character strings, so     *)
(* that slicing, concatenation, startswith and the verdict regex are       *)
(* computed character by character.                                        *)
(***************************************************************************)
EXTENDS Integers, Sequences, FiniteSets, TLC

----------------------------------------------------------------------------
(* String literals of the source *)

\* formatResult: text.startsWith('Error:')
ErrorColon ==
    <<"E","r","r","o","r",":">>

\* perform_analysis: f"Error: {results[result_index]}"
ExcPrefix ==
    <<"E","r","r","o","r",":"," ">>

\* analyze_with_gemini, unconfigured
GeminiNotConfigured ==
    <<"E","r","r","o","r",":"," ","G","e","m","i","n","i"," ","m","o","d","e","l"," ","i","s"," ","n","o","t"," ","c","o","n","f","i","g","u","r","e","d"," ","o","r"," ","A","P","I"," ","k","e","y"," ","i","s"," ","m","i","s","s","i","n","g",".">>

\* analyze_with_openai, unconfigured
OpenAINotConfigured ==
    <<"E","r","r","o","r",":"," ","O","p","e","n","A","I"," ","c","l","i","e","n","t"," ","i","s"," ","n","o","t"," ","c","o","n","f","i","g","u","r","e","d"," ","o","r"," ","A","P","I"," ","k","e","y"," ","i","s"," ","m","i","s","s","i","n","g",".">>

\* analyze_with_gemini: f"Error during Gemini analysis: {e}"
GeminiErrPrefix ==
    <<"E","r","r","o","r"," ","d","u","r","i","n","g"," ","G","e","m","i","n","i"," ","a","n","a","l","y","s","i","s",":"," ">>

\* analyze_with_openai: f"Error during OpenAI analysis: {e}"
OpenAIErrPrefix ==
    <<"E","r","r","o","r"," ","d","u","r","i","n","g"," ","O","p","e","n","A","I"," ","a","n","a","l","y","s","i","s",":"," ">>

\* fetch_website_content, HTTPStatusError: text before the status code
FetchStatusHead ==
    <<"F","a","i","l","e","d"," ","t","o"," ","f","e","t","c","h"," ","c","o","n","t","e","n","t"," ","(","S","t","a","t","u","s",":"," ">>

\* fetch_website_content, HTTPStatusError: text after the status code
FetchStatusTail ==
    <<")","."," ","S","i","t","e"," ","m","a","y"," ","b","e"," ","d","o","w","n",".">>

\* fetch_website_content, RequestError
FetchTransportMsg ==
    <<"C","o","u","l","d"," ","n","o","t"," ","r","e","t","r","i","e","v","e"," ","w","e","b","s","i","t","e"," ","c","o","n","t","e","n","t","."," ","T","h","e"," ","s","i","t","e"," ","m","i","g","h","t"," ","b","e"," ","o","f","f","l","i","n","e"," ","o","r"," ","u","n","r","e","a","c","h","a","b","l","e",".">>

\* perform_analysis: user_prompt, text before the url
UrlHead ==
    <<"U","R","L",":"," ">>

\* perform_analysis: user_prompt, text between the url and the source
SourceHead ==
    <<"\n","\n","S","O","U","R","C","E"," ","C","O","D","E"," ","(","f","i","r","s","t"," ","1","5",",","0","0","0"," ","c","h","a","r","a","c","t","e","r","s",")",":","\n">>

\* analyze: body of the 500 answer when no provider is configured
NotConfiguredMsg ==
    <<"S","e","r","v","e","r"," ","i","s"," ","n","o","t"," ","c","o","n","f","i","g","u","r","e","d"," ","w","i","t","h"," ","a","t"," ","l","e","a","s","t"," ","o","n","e"," ","v","a","l","i","d"," ","A","P","I"," ","k","e","y",".">>

\* analyze: body of the 400 answer when url is missing
UrlRequiredMsg ==
    <<"U","R","L"," ","i","s"," ","r","e","q","u","i","r","e","d",".">>

\* analyze: body of the 500 answer of the except clause
InternalErrorMsg ==
    <<"A","n"," ","i","n","t","e","r","n","a","l"," ","s","e","r","v","e","r"," ","e","r","r","o","r"," ","o","c","c","u","r","r","e","d",".">>

\* formatResult: /Verdict:\s*(Safe|Phishing)/i, the marker, lower-cased
VerdictMarker ==
    <<"v","e","r","d","i","c","t",":">>

\* formatResult: first alternative of the verdict group, lower-cased
SafeWord ==
    <<"s","a","f","e">>

\* formatResult: second alternative of the verdict group, lower-cased
PhishingWord ==
    <<"p","h","i","s","h","i","n","g">>

----------------------------------------------------------------------------
(* Inputs: what a caller, the fetched site and the backends can produce *)

\* a url a caller sends
UrlGood ==
    <<"h","t","t","p",":","/","/","a">>

\* backend texts
TextSafe ==
    <<"V","e","r","d","i","c","t",":"," ","S","a","f","e","\n","R","e","a","s","o","n","i","n","g",":"," ","o","k">>

TextPhishing ==
    <<"V","E","R","D","I","C","T",":","p","h","i","s","h","i","n","g">>

TextVague ==
    <<"n","o"," ","i","d","e","a">>

\* str(e) of an exception raised by a backend call
MsgQuota ==
    <<"q","u","o","t","a">>

\* str(e) of an exception raised by print() inside an adapter's except clause
MsgPipe ==
    <<"p","i","p","e">>

\* str(e) of an exception of the fetch that is neither HTTPStatusError nor RequestError
MsgBadUrl ==
    <<"b","a","d"," ","u","r","l">>

\* a short page
HtmlShort ==
    <<"<","p",">">>

----------------------------------------------------------------------------
(* Bounds and program constants *)

\* how many characters past the truncation limit the longest page has
ExtraChars == 1

\* source_code[:15000]
MaxSourceChars == 15000

\* Python None, for a missing ai_choice
NoChoice == "None"

\* the ai_choice values a caller can send: the three the page offers, a
\* missing one, and one that names no provider
AiChoices == {"gemini", "chatgpt", "both", NoChoice, "claude"}

\* the status codes response.raise_for_status() raises for, in the model
ErrorStatusCodes == {404, 503}

----------------------------------------------------------------------------
(* str operations *)

Min(a, b) == IF a < b THEN a ELSE b

\* Slice taking one character too many
Slice_one_more(s, n) == SubSeq(s, 1, Min(Len(s), n + 1))

\* s[:n]
Slice(s, n) == SubSeq(s, 1, Min(Len(s), n))

\* s.startswith(p)
StartsWith(s, p) == Len(s) >= Len(p) /\ SubSeq(s, 1, Len(p)) = p

\* p occurs in s at position i
OccursAt(s, p, i) == i >= 1 /\ i + Len(p) - 1 <= Len(s) /\ SubSeq(s, i, i + Len(p) - 1) = p

DigitChar(d) ==
    CASE d = 0 -> "0" [] d = 1 -> "1" [] d = 2 -> "2" [] d = 3 -> "3" [] d = 4 -> "4"
      [] d = 5 -> "5" [] d = 6 -> "6" [] d = 7 -> "7" [] d = 8 -> "8" [] d = 9 -> "9"

\* str(n) of a non-negative int, as the f-string formats e.response.status_code
RECURSIVE IntToStr(_)
IntToStr(n) == IF n < 10 THEN <<DigitChar(n)>> ELSE IntToStr(n \div 10) \o <<DigitChar(n % 10)>>

\* the character a regex with the i flag compares, for the letters of the literals
LowerChar(c) ==
    CASE c = "V" -> "v" [] c = "E" -> "e" [] c = "R" -> "r" [] c = "D" -> "d" [] c = "I" -> "i"
      [] c = "C" -> "c" [] c = "T" -> "t" [] c = "S" -> "s" [] c = "A" -> "a" [] c = "F" -> "f"
      [] c = "P" -> "p" [] c = "H" -> "h" [] c = "N" -> "n" [] c = "G" -> "g" [] OTHER -> c

Lower(s) == [i \in 1..Len(s) |-> LowerChar(s[i])]

\* \s of the regex
IsSpace(c) == c \in {" ", "\n", "\t"}

----------------------------------------------------------------------------
(* The page: formatResult(text) *)

\* text.match(/Verdict:\s*(Safe|Phishing)/i)
VerdictMatch(text) ==
    LET low == Lower(text) IN
    \E i \in 1..(Len(low) + 1) :
        /\ OccursAt(low, VerdictMarker, i)
        /\ \E j \in (i + Len(VerdictMarker))..(Len(low) + 1) :
              /\ \A k \in (i + Len(VerdictMarker))..(j - 1) : IsSpace(low[k])
              /\ OccursAt(low, SafeWord, j) \/ OccursAt(low, PhishingWord, j)

\* what the card shows: the red error paragraph, a verdict, or "Unknown"
formatResult(text) ==
    IF StartsWith(text, ErrorColon) THEN "error"
    ELSE IF VerdictMatch(text) THEN "verdict"
    ELSE "unknown"

----------------------------------------------------------------------------
(* The fetched site and the backends *)

\* the i-th character of a long page: the first character, the last one
\* inside the truncation limit and the ones past the limit all differ
PageChar(i) ==
    IF i = 1 THEN "<"
    ELSE IF i < MaxSourceChars THEN "a"
    ELSE IF i = MaxSourceChars THEN "b"
    ELSE "c"

\* a page of n characters
Page(n) == SubSeq([i \in 1..n |-> PageChar(i)], 1, n)

Pages == {HtmlShort} \cup {Page(MaxSourceChars + k) : k \in 0..ExtraChars}

\* the outcomes of the GET in fetch_website_content
FetchOutcomes ==
    {[kind |-> "ok", code |-> 200, val |-> p] : p \in Pages}
    \cup {[kind |-> "status", code |-> c, val |-> <<>>] : c \in ErrorStatusCodes}
    \cup {[kind |-> "request", code |-> 0, val |-> <<>>]}
    \cup {[kind |-> "other", code |-> 0, val |-> MsgBadUrl]}

NoFetch == [kind |-> "none", code |-> 0, val |-> <<>>]

Texts == {TextSafe, TextPhishing, TextVague}

\* the outcomes of a backend call inside an adapter: a text, an exception
\* that the adapter's except clause handles, or an exception raised by the
\* print() of that except clause, which leaves the adapter
BackendOutcomes ==
    {[kind |-> "text", val |-> t] : t \in Texts}
    \cup {[kind |-> "raise", val |-> MsgQuota]}
    \cup {[kind |-> "raise_in_handler", val |-> MsgPipe]}

NoReply == [kind |-> "none", val |-> <<>>]

NoResult == [kind |-> "none", val |-> <<>>]

----------------------------------------------------------------------------
(* fetch_website_content *)

\* status_error_message with the status code left out of the message
status_error_message_no_code(code) == FetchStatusHead \o FetchStatusTail

\* the message of the Exception raised for an HTTPStatusError
status_error_message(code) == FetchStatusHead \o IntToStr(code) \o FetchStatusTail

\* fetch_failed when the except clause of perform_analysis does not return
fetch_failed_ignored(outcome) == FALSE

\* the fetch raised: perform_analysis takes its except clause
fetch_failed(outcome) == outcome.kind # "ok"

\* str(e) of the exception perform_analysis catches
fetch_error_message(outcome) ==
    CASE outcome.kind = "status" -> status_error_message(outcome.code)
      [] outcome.kind = "request" -> FetchTransportMsg
      [] OTHER -> outcome.val

----------------------------------------------------------------------------
(* analyze_with_gemini, analyze_with_openai *)

\* gemini_model / openai_client is not None
configured(p, g, o) == IF p = "gemini" THEN g ELSE o

\* unconfigured_message without the "Error: " in front
unconfigured_message_no_prefix(p) ==
    IF p = "gemini" THEN SubSeq(GeminiNotConfigured, Len(ExcPrefix) + 1, Len(GeminiNotConfigured))
    ELSE SubSeq(OpenAINotConfigured, Len(ExcPrefix) + 1, Len(OpenAINotConfigured))

\* the error string an unconfigured adapter returns
unconfigured_message(p) == IF p = "gemini" THEN GeminiNotConfigured ELSE OpenAINotConfigured

error_prefix(p) == IF p = "gemini" THEN GeminiErrPrefix ELSE OpenAIErrPrefix

\* what the adapter's coroutine ends with, given its backend call's outcome
adapter_result(p, outcome) ==
    CASE outcome.kind = "text" -> [kind |-> "str", val |-> outcome.val]
      [] outcome.kind = "raise" -> [kind |-> "str", val |-> error_prefix(p) \o outcome.val]
      [] OTHER -> [kind |-> "exc", val |-> outcome.val]

----------------------------------------------------------------------------
(* perform_analysis *)

build_prompt(u, source) == UrlHead \o u \o SourceHead \o Slice(source, MaxSourceChars)

NewTask(p, prompt) ==
    [provider |-> p, state |-> "pending", prompt |-> prompt, reply |-> NoReply, result |-> NoResult]

\* the tasks list handed to asyncio.gather
tasks_for(choice, prompt) ==
    (IF choice \in {"gemini", "both"} THEN <<NewTask("gemini", prompt)>> ELSE <<>>)
    \o (IF choice \in {"chatgpt", "both"} THEN <<NewTask("chatgpt", prompt)>> ELSE <<>>)

\* gather_done as a wait that the first exception ends
gather_done_first_exception(ts) ==
    \/ \A i \in 1..Len(ts) : ts[i].state = "done"
    \/ \E i \in 1..Len(ts) : ts[i].state = "done" /\ ts[i].result.kind = "exc"

\* asyncio.gather(*tasks, return_exceptions=True) is done
gather_done(ts) == \A i \in 1..Len(ts) : ts[i].state = "done"

\* one entry of response_data
Entry(r) == IF r.kind = "exc" THEN ExcPrefix \o r.val ELSE r.val

\* FormatResponse with the chatgpt branch testing ai_choice == 'chatgpt' only
FormatResponse_chatgpt_only(choice, results) ==
    LET g == choice \in {"gemini", "both"}
        c == choice = "chatgpt"
        index_chatgpt == IF g THEN 2 ELSE 1
        keys == (IF g THEN {"gemini"} ELSE {}) \cup (IF c THEN {"chatgpt"} ELSE {})
    IN [k \in keys |-> IF k = "gemini" THEN Entry(results[1])
                                          ELSE Entry(results[index_chatgpt])]

\* FormatResponse as it would be without return_exceptions=True: a collected
\* exception replaces the whole response
FormatResponse_exception_aborts(choice, results) ==
    LET g == choice \in {"gemini", "both"}
        c == choice \in {"chatgpt", "both"}
        index_chatgpt == IF g THEN 2 ELSE 1
        keys == (IF g THEN {"gemini"} ELSE {}) \cup (IF c THEN {"chatgpt"} ELSE {})
    IN IF \E i \in 1..Len(results) : results[i].kind = "exc"
       THEN [k \in {"error"} |-> InternalErrorMsg]
       ELSE [k \in keys |-> IF k = "gemini" THEN Entry(results[1])
                                               ELSE Entry(results[index_chatgpt])]

\* FormatResponse without the result_index += 1 of the gemini branch
FormatResponse_no_increment(choice, results) ==
    LET g == choice \in {"gemini", "both"}
        c == choice \in {"chatgpt", "both"}
        keys == (IF g THEN {"gemini"} ELSE {}) \cup (IF c THEN {"chatgpt"} ELSE {})
    IN [k \in keys |-> Entry(results[1])]

\* response_data, built with result_index (0-based in the source, 1-based here)
FormatResponse(choice, results) ==
    LET g == choice \in {"gemini", "both"}
        c == choice \in {"chatgpt", "both"}
        index_gemini == 1
        index_chatgpt == IF g THEN 2 ELSE 1
        keys == (IF g THEN {"gemini"} ELSE {}) \cup (IF c THEN {"chatgpt"} ELSE {})
    IN [k \in keys |-> IF k = "gemini" THEN Entry(results[index_gemini])
                                          ELSE Entry(results[index_chatgpt])]

----------------------------------------------------------------------------
(* analyze *)

\* not_configured with 'and' for 'or'
not_configured_and(keys, g, o) == keys = {} /\ (~g /\ ~o)

\* not api_keys or (not gemini_model and not openai_client)
not_configured(keys, g, o) == keys = {} \/ (~g /\ ~o)

ErrorBody(msg) == [k \in {"error"} |-> msg]

----------------------------------------------------------------------------
(* State *)

VARIABLES
    api_keys,       \* the key names load_api_keys found; {} stands for None
    gemini_model,   \* TRUE when gemini_model is not None
    openai_client,  \* TRUE when openai_client is not None
    pc,             \* where the request is: "idle", "fetch", "gather", "done"
    body_read,      \* request.get_json() was called for this request
    url,            \* data.get('url')
    ai_choice,      \* data.get('ai_choice')
    fetch_calls,    \* calls of fetch_website_content in this request
    fetched,        \* the outcome of the fetch, NoFetch before it settles
    source_code,    \* response.text
    user_prompt,    \* the prompt built by perform_analysis
    tasks,          \* the coroutines handed to asyncio.gather
    settled,        \* the providers whose adapter finished, in completion order
    adapter_calls,  \* per provider, how often its adapter was entered
    backend_calls,  \* per provider, how often its backend was called
    response_data,  \* the JSON object returned
    status_code     \* the HTTP status returned, 0 while there is none

vars == <<api_keys, gemini_model, openai_client, pc, body_read, url, ai_choice,
          fetch_calls, fetched, source_code, user_prompt, tasks, settled,
          adapter_calls, backend_calls, response_data, status_code>>

config == <<api_keys, gemini_model, openai_client>>

Providers == {"gemini", "chatgpt"}

NoCalls == [p \in Providers |-> 0]

EmptyBody == [k \in {} |-> <<>>]

\* module level of main.py: keys loaded, clients configured (a failing
\* configuration leaves the client None although its key is present)
Init ==
    /\ api_keys \in SUBSET {"GEMINI_API", "CHATGPT_API"}
    /\ gemini_model \in (IF "GEMINI_API" \in api_keys THEN BOOLEAN ELSE {FALSE})
    /\ openai_client \in (IF "CHATGPT_API" \in api_keys THEN BOOLEAN ELSE {FALSE})
    /\ pc = "idle"
    /\ body_read = FALSE
    /\ url = <<>>
    /\ ai_choice = NoChoice
    /\ fetch_calls = 0
    /\ fetched = NoFetch
    /\ source_code = <<>>
    /\ user_prompt = <<>>
    /\ tasks = <<>>
    /\ settled = <<>>
    /\ adapter_calls = NoCalls
    /\ backend_calls = NoCalls
    /\ response_data = EmptyBody
    /\ status_code = 0

\* the request ends with a response and no fetch
Answer(read, body, status) ==
    /\ pc' = "done"
    /\ body_read' = read
    /\ response_data' = body
    /\ status_code' = status
    /\ fetch_calls' = 0
    /\ url' = <<>>
    /\ ai_choice' = NoChoice

\* POST /analyze arrives: analyze() up to the first suspension of
\* perform_analysis, the await of fetch_website_content
analyze ==
    /\ pc \in {"idle", "done"}
    /\ fetched' = NoFetch
    /\ source_code' = <<>>
    /\ user_prompt' = <<>>
    /\ tasks' = <<>>
    /\ settled' = <<>>
    /\ adapter_calls' = NoCalls
    /\ backend_calls' = NoCalls
    /\ \E body_ok \in BOOLEAN, u \in {<<>>, UrlGood}, choice \in AiChoices :
          IF not_configured(api_keys, gemini_model, openai_client)
          THEN Answer(FALSE, ErrorBody(NotConfiguredMsg), 500)
          ELSE IF ~body_ok
          THEN Answer(TRUE, ErrorBody(InternalErrorMsg), 500)
          ELSE IF u = <<>>
          THEN Answer(TRUE, ErrorBody(UrlRequiredMsg), 400)
          ELSE /\ pc' = "fetch"
               /\ body_read' = TRUE
               /\ url' = u
               /\ ai_choice' = choice
               /\ fetch_calls' = 1
               /\ response_data' = EmptyBody
               /\ status_code' = 0
    /\ UNCHANGED config

\* the fetch settles: on an exception perform_analysis returns the error
\* with 400; otherwise it truncates, builds the prompt, fills tasks and
\* awaits asyncio.gather
fetch_website_content ==
    /\ pc = "fetch"
    /\ \E outcome \in FetchOutcomes :
          /\ fetched' = outcome
          /\ IF fetch_failed(outcome)
             THEN /\ pc' = "done"
                  /\ response_data' = ErrorBody(fetch_error_message(outcome))
                  /\ status_code' = 400
                  /\ UNCHANGED <<source_code, user_prompt, tasks>>
             ELSE /\ pc' = "gather"
                  /\ source_code' = outcome.val
                  /\ user_prompt' = build_prompt(url, outcome.val)
                  /\ tasks' = tasks_for(ai_choice, build_prompt(url, outcome.val))
                  /\ UNCHANGED <<response_data, status_code>>
    /\ UNCHANGED <<config, body_read, url, ai_choice, fetch_calls, settled,
                   adapter_calls, backend_calls>>

\* the event loop runs a gathered coroutine up to its first suspension: an
\* unconfigured adapter returns its error string at once, a configured one
\* calls its backend and waits
adapter_starts ==
    /\ pc = "gather"
    /\ \E i \in 1..Len(tasks) :
          LET p == tasks[i].provider IN
          /\ tasks[i].state = "pending"
          /\ adapter_calls' = [adapter_calls EXCEPT ![p] = @ + 1]
          /\ IF configured(p, gemini_model, openai_client)
             THEN /\ tasks' = [tasks EXCEPT ![i].state = "running"]
                  /\ backend_calls' = [backend_calls EXCEPT ![p] = @ + 1]
                  /\ UNCHANGED settled
             ELSE /\ tasks' = [tasks EXCEPT ![i].state = "done",
                                            ![i].result = [kind |-> "str", val |-> unconfigured_message(p)]]
                  /\ settled' = Append(settled, p)
                  /\ UNCHANGED backend_calls
    /\ UNCHANGED <<config, pc, body_read, url, ai_choice, fetch_calls, fetched,
                   source_code, user_prompt, response_data, status_code>>

\* a backend call settles and its adapter finishes
adapter_returns ==
    /\ pc = "gather"
    /\ \E i \in 1..Len(tasks), outcome \in BackendOutcomes :
          /\ tasks[i].state = "running"
          /\ tasks' = [tasks EXCEPT ![i].state = "done",
                                    ![i].reply = outcome,
                                    ![i].result = adapter_result(tasks[i].provider, outcome)]
          /\ settled' = Append(settled, tasks[i].provider)
    /\ UNCHANGED <<config, pc, body_read, url, ai_choice, fetch_calls, fetched,
                   source_code, user_prompt, adapter_calls, backend_calls,
                   response_data, status_code>>

\* asyncio.gather returns; perform_analysis formats the response and
\* analyze returns it
gather_returns ==
    /\ pc = "gather"
    /\ gather_done(tasks)
    /\ response_data' = FormatResponse(ai_choice, [i \in 1..Len(tasks) |-> tasks[i].result])
    /\ status_code' = 200
    /\ pc' = "done"
    /\ UNCHANGED <<config, body_read, url, ai_choice, fetch_calls, fetched,
                   source_code, user_prompt, tasks, settled, adapter_calls, backend_calls>>

Next ==
    \/ analyze
    \/ fetch_website_content
    \/ adapter_starts
    \/ adapter_returns
    \/ gather_returns

Spec == Init /\ [][Next]_vars

----------------------------------------------------------------------------
(* Properties *)

\* the providers an ai_choice selects
Selects(choice, p) ==
    \/ choice = "both"
    \/ choice = p

\* the request went through a successful fetch and was answered
Analysed == pc = "done" /\ fetched.kind = "ok"

\* the adapter's call did not produce a classification: the provider is
\* unconfigured, its backend call raised, or an exception left the adapter
TaskFailed(t) ==
    /\ t.state = "done"
    /\ t.reply.kind # "text"

\* C1: after a successful fetch, the response of a request that selects
\* providers has the key set {gemini} for 'gemini', {chatgpt} for 'chatgpt'
\* and {gemini, chatgpt} for 'both', whatever the provider calls did.
C1_OneEntryPerSelectedProvider ==
    Analysed =>
        /\ ai_choice = "gemini" => DOMAIN response_data = {"gemini"}
        /\ ai_choice = "chatgpt" => DOMAIN response_data = {"chatgpt"}
        /\ ai_choice = "both" => DOMAIN response_data = {"gemini", "chatgpt"}

\* 'both' answered with one call's exception collected by the join and the
\* other call's exception handled in its adapter
C1_Witness ==
    /\ Analysed
    /\ ai_choice = "both"
    /\ tasks[1].result.kind = "exc"
    /\ tasks[2].reply.kind = "raise"
    /\ DOMAIN response_data = {"gemini", "chatgpt"}

\* p occurs somewhere in s
Contains(s, p) == \E i \in 1..(Len(s) + 1) : OccursAt(s, p, i)

\* the decimal digits of the status codes of the model, written out
StatusDigits(code) ==
    CASE code = 404 -> <<"4", "0", "4">>
      [] code = 503 -> <<"5", "0", "3">>
      [] code = 504 -> <<"5", "0", "4">>

\* C2: when the fetch fails with a status error or a transport error, no
\* adapter is entered and no backend is called, and the request is answered
\* 400 with a body whose only key is 'error'; for a status error the message
\* holds the status code.
C2_FetchFailureAborts ==
    fetched.kind \in {"status", "request"} =>
        /\ tasks = <<>>
        /\ adapter_calls = NoCalls
        /\ backend_calls = NoCalls
        /\ pc = "done"
        /\ status_code = 400
        /\ DOMAIN response_data = {"error"}
        /\ fetched.kind = "status" => Contains(response_data["error"], StatusDigits(fetched.code))
        /\ fetched.kind = "request" => response_data["error"] = FetchTransportMsg

\* a 404 of the site, for a request that selected both providers
C2_Witness ==
    /\ pc = "done"
    /\ ai_choice = "both"
    /\ fetched.kind = "status"
    /\ fetched.code = 404
    /\ status_code = 400

\* C3: with 'both' and a successful fetch, when one provider's call failed
\* and the other's backend returned a text, that text is the value under the
\* other provider's key, unchanged, whichever call finished first.
C3_FailureDoesNotHideSuccess ==
    (Analysed /\ ai_choice = "both") =>
        \A i, j \in 1..Len(tasks) :
            (i # j /\ TaskFailed(tasks[i]) /\ tasks[j].reply.kind = "text") =>
                /\ tasks[j].provider \in DOMAIN response_data
                /\ response_data[tasks[j].provider] = tasks[j].reply.val

\* gemini's exception was collected by the join after chatgpt had answered
C3_Witness ==
    /\ Analysed
    /\ ai_choice = "both"
    /\ settled = <<"chatgpt", "gemini">>
    /\ tasks[1].result.kind = "exc"
    /\ tasks[2].reply = [kind |-> "text", val |-> TextPhishing]
    /\ response_data["chatgpt"] = TextPhishing

\* C4: a response exists only when every dispatched call has settled; no
\* first success and no first failure ends the wait.
C4_JoinNotRace ==
    (pc = "done" \/ status_code # 0) =>
        \A i \in 1..Len(tasks) : tasks[i].state = "done"

\* the call that finished first raised, the response still waited for the
\* second call
C4_Witness ==
    /\ Analysed
    /\ ai_choice = "both"
    /\ settled = <<"chatgpt", "gemini">>
    /\ tasks[2].result.kind = "exc"
    /\ tasks[1].reply.kind = "text"
    /\ backend_calls = [p \in Providers |-> 1]

\* C5: a request whose ai_choice selects no provider is rejected before any
\* fetch: no fetch is made for it and it is not answered 200.
C5_ZeroProvidersRejected ==
    (body_read /\ url # <<>> /\ ai_choice \notin {"gemini", "chatgpt", "both"}) =>
        /\ fetch_calls = 0
        /\ adapter_calls = NoCalls
        /\ ~(pc = "done" /\ status_code = 200)

\* C6: after a successful fetch, a selected provider whose adapter is
\* unconfigured has an entry under its key that is an error string, and the
\* status is 200.
C6_UnconfiguredProviderHasErrorEntry ==
    Analysed =>
        \A p \in Providers :
            (Selects(ai_choice, p) /\ ~configured(p, gemini_model, openai_client)) =>
                /\ status_code = 200
                /\ p \in DOMAIN response_data
                /\ StartsWith(response_data[p], ErrorColon)
                /\ backend_calls[p] = 0

\* 'chatgpt' selected with OpenAI unconfigured
C6_Witness ==
    /\ Analysed
    /\ ai_choice = "chatgpt"
    /\ ~openai_client
    /\ status_code = 200
    /\ response_data = [k \in {"chatgpt"} |-> OpenAINotConfigured]

\* C7: 500 with no body read, no fetch and no provider call when no provider
\* is configured; 400 when the fetch failed; 200 on every completed analysis,
\* whatever the provider calls did.
C7_StatusCode ==
    /\ (~gemini_model /\ ~openai_client /\ pc # "idle") =>
          /\ pc = "done"
          /\ status_code = 500
          /\ ~body_read
          /\ fetch_calls = 0
          /\ adapter_calls = NoCalls
          /\ backend_calls = NoCalls
    /\ (pc = "done" /\ fetched.kind \notin {"none", "ok"}) => status_code = 400
    /\ Analysed => status_code = 200

\* a completed analysis in which both selected providers failed
C7_Witness ==
    /\ Analysed
    /\ ai_choice = "both"
    /\ tasks[1].reply.kind = "raise"
    /\ tasks[2].result.kind = "exc"
    /\ status_code = 200

\* C8: the entry of every provider whose call failed starts with "Error:",
\* so that formatResult shows it as an error and never as a verdict or as
\* Unknown.
C8_FailedEntryStartsWithError ==
    Analysed =>
        \A i \in 1..Len(tasks) :
            (TaskFailed(tasks[i]) /\ tasks[i].provider \in DOMAIN response_data) =>
                /\ StartsWith(response_data[tasks[i].provider], ErrorColon)
                /\ formatResult(response_data[tasks[i].provider]) = "error"

\* C9: the prompt is the fixed text, the url, and the first 15,000
\* characters of the fetched content (all of it when it is shorter), and
\* every dispatched adapter is given that prompt.
C9_PromptHoldsPrefix ==
    (pc \in {"gather", "done"} /\ fetched.kind = "ok") =>
        \A head \in {UrlHead \o url \o SourceHead} :
        \A kept \in {IF Len(source_code) > MaxSourceChars THEN MaxSourceChars ELSE Len(source_code)} :
        \A start \in {Len(head)} :
           /\ Len(user_prompt) = start + kept
           /\ SubSeq(user_prompt, 1, start) = head
           /\ \A i \in 1..kept : user_prompt[start + i] = source_code[i]
           /\ \A t \in 1..Len(tasks) : tasks[t].prompt = user_prompt

\* a page longer than the limit was analysed by both providers
C9_Witness ==
    /\ Analysed
    /\ ai_choice = "both"
    /\ Len(source_code) > MaxSourceChars
    /\ Len(user_prompt) = Len(UrlHead) + Len(url) + Len(SourceHead) + MaxSourceChars
    /\ backend_calls = [p \in Providers |-> 1]
    /\ tasks[1].reply.kind = "text"

\* C10: an adapter is entered, and a backend called, only after the one
\* fetch of the request has returned its content.
C10_FetchPrecedesProviderCalls ==
    /\ fetch_calls <= 1
    /\ (\/ adapter_calls # NoCalls
        \/ backend_calls # NoCalls
        \/ \E i \in 1..Len(tasks) : tasks[i].state # "pending")
       => (fetched.kind = "ok" /\ fetch_calls = 1)
    /\ pc = "fetch" => (tasks = <<>> /\ adapter_calls = NoCalls)

\* after the fetch, chatgpt's call has completed while gemini's is in flight
C10_Witness ==
    /\ pc = "gather"
    /\ fetched.kind = "ok"
    /\ Len(tasks) = 2
    /\ tasks[1].state = "running"
    /\ tasks[2].state = "done"
    /\ tasks[2].reply.kind = "text"

\* what the adapter of a settled task handed back, as a response entry: the
\* backend's text, the adapter's own error string for its provider, or the
\* "Error: " rendering of an exception that left the adapter
OutcomeOf(t) ==
    CASE t.reply.kind = "text" -> t.reply.val
      [] t.reply.kind = "raise" ->
            (IF t.provider = "gemini" THEN GeminiErrPrefix ELSE OpenAIErrPrefix) \o t.reply.val
      [] t.reply.kind = "raise_in_handler" -> ExcPrefix \o t.reply.val
      [] OTHER ->
            IF t.provider = "gemini" THEN GeminiNotConfigured ELSE OpenAINotConfigured

\* C11: after a completed analysis the value under 'gemini' is the outcome
\* of analyze_with_gemini and the value under 'chatgpt' is the outcome of
\* analyze_with_openai, for 'gemini', 'chatgpt' (its result at index 0) and
\* 'both', in every completion order; no outcome is swapped or duplicated.
C11_OutcomeInOwnSlot ==
    (Analysed /\ ai_choice \in {"gemini", "chatgpt", "both"}) =>
        /\ \A i \in 1..Len(tasks) :
              /\ tasks[i].provider \in DOMAIN response_data
              /\ response_data[tasks[i].provider] = OutcomeOf(tasks[i])
        /\ \A p \in DOMAIN response_data :
              \E i \in 1..Len(tasks) : tasks[i].provider = p
        /\ ai_choice = "chatgpt" =>
              (Len(tasks) = 1 /\ tasks[1].provider = "chatgpt")
        /\ ai_choice = "both" =>
              (Len(tasks) = 2 /\ tasks[1].provider = "gemini" /\ tasks[2].provider = "chatgpt")

\* both selected, chatgpt answered first, and the two different texts sit
\* under their own keys
C11_Witness ==
    /\ Analysed
    /\ ai_choice = "both"
    /\ settled = <<"chatgpt", "gemini">>
    /\ tasks[1].reply = [kind |-> "text", val |-> TextSafe]
    /\ tasks[2].reply = [kind |-> "text", val |-> TextPhishing]
    /\ response_data = [k \in {"gemini", "chatgpt"} |->
                            IF k = "gemini" THEN TextSafe ELSE TextPhishing]

====
